---- MODULE Spec2Model ----
(***************************************************************************)
(* Model of the two slide-export scripts of backend/src:                   *)
(*   exportSlides.py       (export_slides_to_png)                          *)
(*   exportSlidesMacro.py  (export_slides)                                 *)
(* Each script is a sequential program driving an automation host.  The    *)
(* host is an opaque collaborator: every request sent to it either         *)
(* answers or raises, chosen nondeterministically.  The output directory   *)
(* and the host's open-document set persist from one run to the next.      *)
(***************************************************************************)
EXTENDS Integers, Sequences, FiniteSets, TLC

\* ---------------------------------------------------------------- bounds
MaxSlides == 10
MaxRuns == 2
MaxArgc == 4

\* ------------------------------------------------------ program constants
\* len(sys.argv) the entry point requires (program name + two arguments)
RequiredArgc == 3
\* minimum field width of the slide number in the file name ("03d")
PadWidth == 3
\* search flags passed to loadComponentFromURL
SearchFlags == 0

Scripts == {"exportSlides", "exportSlidesMacro"}

VARIABLES
    nSlides,      \* slide count of the presentation stored in input_file
    fileExists,   \* whether input_file exists
    run,          \* ordinal of the current process run
    script,       \* which script this run executes
    argc,         \* len(sys.argv) of this run
    pc,           \* position of the process
    doc,          \* the local document / doc: "unset", "None" or "doc"
    slides,       \* exportSlidesMacro.py: truthiness of the controller lookup
    pageCount,    \* value of pages.getCount() / pageCount
    i,            \* loop variable
    trace,        \* steps of the procedure attempted by this run, in order
    raised,       \* the exception raised in this run, if any
    result,       \* return value of the export function
    stderr,       \* lines printed to the error stream by this run
    exitCode,     \* process exit status, -1 while running
    fs,           \* contents of output_dir
    fs0,          \* contents of output_dir when this run started
    written,      \* names of the files written by this run
    hostDocs,     \* the host's open-document set (runs whose document is open)
    prev          \* summary of the previous run

vars == <<nSlides, fileExists, run, script, argc, pc, doc, slides, pageCount, i,
          trace, raised, result, stderr, exitCode, fs, fs0, written, hostDocs, prev>>

input == <<nSlides, fileExists>>
locals == <<doc, slides, pageCount, i>>
output == <<fs, written>>

\* ------------------------------------------------------------ file names
DigitChar == <<"0", "1", "2", "3", "4", "5", "6", "7", "8", "9">>

RECURSIVE Digits(_)
\* decimal digits of n >= 0, most significant first (format type "d")
Digits(n) == IF n < 10 THEN <<DigitChar[n + 1]>>
             ELSE Digits(n \div 10) \o <<DigitChar[(n % 10) + 1]>>

RECURSIVE ZeroPad(_, _)
\* left-pad with "0" up to a minimum width (format "0<w>"); never truncates
ZeroPad(s, w) == IF Len(s) >= w THEN s ELSE ZeroPad(<<"0">> \o s, w)

\* faulty variant: the loop index is used without the +1
OutputNameZeroBased(idx) == <<"slide_">> \o ZeroPad(Digits(idx), PadWidth) \o <<".png">>

\* f"slide_{i+1:03d}.png"
OutputName(idx) == <<"slide_">> \o ZeroPad(Digits(idx + 1), PadWidth) \o <<".png">>

\* ------------------------------------------------------------- requests
NoName == <<>>

Step(op) == [op |-> op, index |-> -1, name |-> NoName,
             target |-> "", flags |-> -1, props |-> {}]

\* props handed to loadComponentFromURL
LoadProps(s) == IF s = "exportSlides"
                THEN {[Name |-> "Hidden", Value |-> TRUE]}
                ELSE {}

LoadRequest(s) == [Step("load") EXCEPT !.target = "_blank",
                                       !.flags = SearchFlags,
                                       !.props = LoadProps(s)]

ExportRequest(idx) == [Step("export") EXCEPT !.index = idx,
                                             !.name = OutputName(idx)]

NoExc == [step |-> "none", k |-> 0]
Exc(s) == [step |-> s, k |-> 0]
ExportExc(k) == [step |-> "export", k |-> k]

NoPrev == [valid |-> FALSE, script |-> "none", argc |-> 0, exitCode |-> -1,
           result |-> "none", raised |-> NoExc, trace |-> <<>>,
           written |-> {}, fs |-> {}]

\* a file of output_dir: its name and the slide whose rendering it holds
\* (slide 0: content that no run of the scripts produced)
File(nm, k) == [name |-> nm, slide |-> k]

\* the host writes (or overwrites) the PNG of slide k at name nm
WriteFile(dir, nm, k) == {f \in dir : f.name # nm} \cup {File(nm, k)}

StaleDir == {File(<<"slide_", "0", "0", "1", ".png">>, 0),
             File(<<"notes", ".txt">>, 0)}

\* ----------------------------------------------------------------- Init
Init ==
    /\ fileExists \in BOOLEAN
    /\ nSlides \in 0..MaxSlides
    /\ (~fileExists => nSlides = 0)
    /\ run = 1
    /\ script = "none"
    /\ argc = 0
    /\ pc = "idle"
    /\ doc = "unset"
    /\ slides = FALSE
    /\ pageCount = 0
    /\ i = 0
    /\ trace = <<>>
    /\ raised = NoExc
    /\ result = "none"
    /\ stderr = <<>>
    /\ exitCode = -1
    /\ fs \in {{}, StaleDir}
    /\ fs0 = fs
    /\ written = {}
    /\ hostDocs = {}
    /\ prev = NoPrev

\* -------------------------------------------------------------- actions
\* the interpreter is started on one of the two scripts
Launch ==
    /\ pc = "idle"
    /\ \E s \in Scripts, n \in 1..MaxArgc :
          /\ script' = s
          /\ argc' = n
    /\ pc' = "toplevel"
    /\ doc' = "unset"
    /\ slides' = FALSE
    /\ pageCount' = 0
    /\ i' = 0
    /\ trace' = <<>>
    /\ raised' = NoExc
    /\ result' = "none"
    /\ stderr' = <<>>
    /\ exitCode' = -1
    /\ fs0' = fs
    /\ written' = {}
    /\ UNCHANGED <<input, run, fs, hostDocs, prev>>

\* an exception is raised inside the try block
Raise(e) ==
    /\ raised' = e
    /\ pc' = "except"


Usage(s) == <<"Usage: ", s>>
ErrorLine(e) == <<"Error: ", e.step>>
Traceback(e) == <<"Traceback", e.step>>

\* module-level statements before the entry point.  exportSlides.py imports
\* PropertyValue from the automation API here, outside any try block: if the
\* import fails the interpreter prints a traceback and exits with status 1.
TopLevelImports ==
    /\ pc = "toplevel"
    /\ IF script = "exportSlides"
       THEN /\ trace' = Append(trace, Step("import"))
            /\ \/ /\ pc' = "main"
                  /\ UNCHANGED <<raised, stderr, exitCode>>
               \/ /\ raised' = Exc("toplevel")
                  /\ stderr' = Append(stderr, Traceback(Exc("toplevel")))
                  /\ exitCode' = 1
                  /\ pc' = "exited"
       ELSE /\ pc' = "main"
            /\ UNCHANGED <<trace, raised, stderr, exitCode>>
    /\ UNCHANGED <<input, run, script, argc, locals, result, output, fs0,
                   hostDocs, prev>>

\* if __name__ == "__main__": argument-count check, then the call
Main ==
    /\ pc = "main"
    /\ IF argc # RequiredArgc
       THEN /\ stderr' = Append(stderr, Usage(script))
            /\ exitCode' = 1
            /\ pc' = "exited"
       ELSE /\ pc' = "import"
            /\ UNCHANGED <<stderr, exitCode>>
    /\ UNCHANGED <<input, run, script, argc, locals, trace, raised, result,
                   output, fs0, hostDocs, prev>>

\* import uno / PropertyValue inside the try block
ImportUno ==
    /\ pc = "import"
    /\ trace' = Append(trace, Step("import"))
    /\ \/ /\ pc' = "connect"
          /\ UNCHANGED raised
       \/ Raise(Exc("import"))
    /\ UNCHANGED <<input, run, script, argc, locals, result, stderr, exitCode,
                   output, fs0, hostDocs, prev>>

\* component context, resolver, resolve(), service manager, desktop
Connect ==
    /\ pc = "connect"
    /\ trace' = Append(trace, Step("connect"))
    /\ \/ /\ pc' = "load"
          /\ UNCHANGED raised
       \/ Raise(Exc("connect"))
    /\ UNCHANGED <<input, run, script, argc, locals, result, stderr, exitCode,
                   output, fs0, hostDocs, prev>>

AfterLoad(s) == IF s = "exportSlides" THEN "presentation" ELSE "controller"

\* faulty variant: a missing input file is answered with a fresh document
LoadDocumentCreatesMissing ==
    /\ pc = "load"
    /\ trace' = Append(trace, LoadRequest(script))
    /\ doc' = "doc"
    /\ hostDocs' = hostDocs \cup {run}
    /\ pc' = AfterLoad(script)
    /\ UNCHANGED <<input, run, script, argc, slides, pageCount, i, raised,
                   result, stderr, exitCode, output, fs0, prev>>

\* desktop.loadComponentFromURL(url, "_blank", 0, props): the host opens the
\* document, answers with no document, or raises; a file that does not
\* exist is never opened
LoadDocument ==
    /\ pc = "load"
    /\ trace' = Append(trace, LoadRequest(script))
    /\ \/ /\ fileExists
          /\ doc' = "doc"
          /\ hostDocs' = hostDocs \cup {run}
          /\ pc' = AfterLoad(script)
          /\ UNCHANGED raised
       \/ /\ doc' = "None"
          /\ pc' = AfterLoad(script)
          /\ UNCHANGED <<raised, hostDocs>>
       \/ /\ Raise(Exc("load"))
          /\ UNCHANGED <<doc, hostDocs>>
    /\ UNCHANGED <<input, run, script, argc, slides, pageCount, i,
                   result, stderr, exitCode, output, fs0, prev>>

\* exportSlidesMacro.py: doc.getCurrentController().getSlideShowController()
\* and the test "if not slides"
GetController ==
    /\ pc = "controller"
    /\ IF doc = "None"
       THEN /\ Raise(Exc("nodoc"))
            /\ UNCHANGED <<trace, slides>>
       ELSE /\ trace' = Append(trace, Step("controller"))
            /\ \/ \E t \in BOOLEAN :
                     /\ slides' = t
                     /\ pc' = IF t THEN "close" ELSE "presentation"
                     /\ UNCHANGED raised
               \/ /\ Raise(Exc("controller"))
                  /\ UNCHANGED slides
    /\ UNCHANGED <<input, run, script, argc, doc, pageCount, i, result, stderr,
                   exitCode, output, fs0, hostDocs, prev>>

\* presentation object, slide collection and its count
GetPresentation ==
    /\ pc = "presentation"
    /\ IF doc = "None"
       THEN /\ Raise(Exc("nodoc"))
            /\ UNCHANGED <<trace, pageCount, i>>
       ELSE /\ trace' = Append(trace, Step("enumerate"))
            /\ \/ /\ pageCount' = nSlides
                  /\ i' = 0
                  /\ pc' = "loop"
                  /\ UNCHANGED raised
               \/ /\ Raise(Exc("enumerate"))
                  /\ UNCHANGED <<pageCount, i>>
    /\ UNCHANGED <<input, run, script, argc, doc, slides, result, stderr,
                   exitCode, output, fs0, hostDocs, prev>>

\* for i in range(count): getByIndex(i), output name, slide.export(url, "png").
\* getByIndex(i) answers the (i+1)-th slide in document order; a successful
\* export creates or overwrites the file, a raising one writes nothing.
ExportLoop ==
    /\ pc = "loop"
    /\ IF i < pageCount
       THEN \/ /\ Raise([step |-> "getByIndex", k |-> i + 1])
               /\ UNCHANGED <<trace, i, fs, written>>
            \/ /\ trace' = Append(trace, ExportRequest(i))
               /\ \/ /\ fs' = WriteFile(fs, OutputName(i), i + 1)
                     /\ written' = written \cup {OutputName(i)}
                     /\ i' = i + 1
                     /\ pc' = "loop"
                     /\ UNCHANGED raised
                  \/ /\ Raise(ExportExc(i + 1))
                     /\ UNCHANGED <<i, fs, written>>
       ELSE /\ pc' = "close"
            /\ UNCHANGED <<trace, raised, i, fs, written>>
    /\ UNCHANGED <<input, run, script, argc, doc, slides, pageCount, result,
                   stderr, exitCode, fs0, hostDocs, prev>>

\* document.close(True); return True.  A close that raises may or may not
\* have removed the document from the host's open-document set.
CloseDocument ==
    /\ pc = "close"
    /\ trace' = Append(trace, Step("close"))
    /\ \/ /\ hostDocs' = hostDocs \ {run}
          /\ result' = "true"
          /\ pc' = "return"
          /\ UNCHANGED raised
       \/ /\ Raise(Exc("close"))
          /\ hostDocs' \in {hostDocs, hostDocs \ {run}}
          /\ UNCHANGED result
    /\ UNCHANGED <<input, run, script, argc, locals, stderr, exitCode, output,
                   fs0, prev>>


\* faulty variant: the handler reports the error but returns True
ExceptHandlerReturnsTrue ==
    /\ pc = "except"
    /\ stderr' = Append(stderr, ErrorLine(raised))
    /\ result' = "true"
    /\ pc' = "return"
    /\ UNCHANGED <<input, run, script, argc, locals, trace, raised, exitCode,
                   output, fs0, hostDocs, prev>>

\* faulty variant: the handler removes the files written so far
ExceptHandlerCleansUp ==
    /\ pc = "except"
    /\ stderr' = Append(stderr, ErrorLine(raised))
    /\ result' = "false"
    /\ pc' = "return"
    /\ fs' = {f \in fs : f.name \notin written}
    /\ UNCHANGED <<input, run, script, argc, locals, trace, raised, exitCode,
                   written, fs0, hostDocs, prev>>

\* faulty variant: the handler closes the document it had opened
ExceptHandlerClosesDocument ==
    /\ pc = "except"
    /\ stderr' = Append(stderr, ErrorLine(raised))
    /\ result' = "false"
    /\ pc' = "return"
    /\ trace' = IF doc = "doc" THEN Append(trace, Step("close")) ELSE trace
    /\ hostDocs' = hostDocs \ {run}
    /\ UNCHANGED <<input, run, script, argc, locals, raised, exitCode,
                   output, fs0, prev>>

\* except Exception as e: print(f"Error: {e}", file=sys.stderr); return False
ExceptHandler ==
    /\ pc = "except"
    /\ stderr' = Append(stderr, ErrorLine(raised))
    /\ result' = "false"
    /\ pc' = "return"
    /\ UNCHANGED <<input, run, script, argc, locals, trace, raised, exitCode,
                   output, fs0, hostDocs, prev>>

\* sys.exit(0) if the function returned True, sys.exit(1) otherwise
Exit ==
    /\ pc = "return"
    /\ exitCode' = IF result = "true" THEN 0 ELSE 1
    /\ pc' = "exited"
    /\ UNCHANGED <<input, run, script, argc, locals, trace, raised, result,
                   stderr, output, fs0, hostDocs, prev>>

Summary == [valid |-> TRUE, script |-> script, argc |-> argc,
            exitCode |-> exitCode, result |-> result, raised |-> raised,
            trace |-> trace, written |-> written, fs |-> fs]

\* the process is gone; the same command line can be started again on the
\* same input_file and output_dir
NextRun ==
    /\ pc = "exited"
    /\ run < MaxRuns
    /\ prev' = Summary
    /\ run' = run + 1
    /\ pc' = "idle"
    /\ UNCHANGED <<input, script, argc, locals, trace, raised, result, stderr,
                   exitCode, output, fs0, hostDocs>>

Next ==
    \/ Launch
    \/ TopLevelImports
    \/ Main
    \/ ImportUno
    \/ Connect
    \/ LoadDocument
    \/ GetController
    \/ GetPresentation
    \/ ExportLoop
    \/ CloseDocument
    \/ ExceptHandler
    \/ Exit
    \/ NextRun

Spec == Init /\ [][Next]_vars

\* ------------------------------------------------------------------ types
TypeOK ==
    /\ nSlides \in 0..MaxSlides
    /\ fileExists \in BOOLEAN
    /\ run \in 1..MaxRuns
    /\ script \in Scripts \cup {"none"}
    /\ argc \in 0..MaxArgc
    /\ pc \in {"idle", "toplevel", "main", "import", "connect", "load",
               "controller", "presentation", "loop", "close", "except",
               "return", "exited"}
    /\ doc \in {"unset", "None", "doc"}
    /\ slides \in BOOLEAN
    /\ pageCount \in 0..MaxSlides
    /\ i \in 0..pageCount
    /\ result \in {"none", "true", "false"}
    /\ exitCode \in {-1, 0, 1}
    /\ hostDocs \subseteq 1..MaxRuns


\* ------------------------------------------------- vocabulary of the claims
\* slide_001.png, slide_002.png, ... written out digit by digit (k < 1000)
NumberedName(k) == <<"slide_", DigitChar[((k \div 100) % 10) + 1],
                     DigitChar[((k \div 10) % 10) + 1],
                     DigitChar[(k % 10) + 1], ".png">>

NumberedNames(n) == {NumberedName(k) : k \in 1..n}

OfOp(t, ops) == SelectSeq(t, LAMBDA r : r.op \in ops)
Exports(t) == OfOp(t, {"export"})
Closes(t) == OfOp(t, {"close"})
PostLoad(t) == OfOp(t, {"enumerate", "export", "close"})

Returned == pc \in {"return", "exited"}
InFunction(e) == e # NoExc /\ e.step # "toplevel"

\* C1: a run that exits with code 0 has written exactly the files
\* slide_001.png .. slide_N.png, N the slide count (N = 0 included), and
\* nothing else.
C1_SuccessWritesExactlyN ==
    (pc = "exited" /\ exitCode = 0) =>
        /\ written = NumberedNames(nSlides)
        /\ \A k \in 1..nSlides : File(NumberedName(k), k) \in fs

C3_ExceptionsCaught ==
    /\ (InFunction(raised) /\ Returned) =>
          /\ result = "false"
          /\ Len(stderr) = 1
          /\ stderr[1][1] = "Error: "
    /\ (InFunction(raised) /\ pc = "exited") => exitCode = 1
    /\ exitCode = 0 => (raised = NoExc /\ result = "true" /\ stderr = <<>>)
    /\ (pc = "exited" /\ result = "false") => exitCode = 1

C3_Witness ==
    /\ pc = "exited" /\ exitCode = 1 /\ result = "false"
    /\ raised.step = "export" /\ raised.k = 2
    /\ Len(stderr) = 1

\* C4: started with an argument count other than two, a script prints the
\* usage message and exits with 1, no step of the export procedure (the
\* automation-API import included) having been attempted.
C4_UsageBeforeAnyStep ==
    (pc = "exited" /\ argc # RequiredArgc) =>
        /\ exitCode = 1
        /\ stderr = <<Usage(script)>>
        /\ trace = <<>>

\* C5: with an input_file that does not exist a run exits with 1, the export
\* function (when reached) returns false, no export request is issued and
\* output_dir is left as it was.
C5_MissingInput ==
    (pc = "exited" /\ ~fileExists /\ argc = RequiredArgc) =>
        /\ exitCode = 1
        /\ (raised.step # "toplevel" => result = "false")
        /\ Exports(trace) = <<>>
        /\ written = {}
        /\ fs = fs0

C5_Witness ==
    /\ pc = "exited" /\ ~fileExists /\ argc = RequiredArgc
    /\ doc = "None" /\ exitCode = 1 /\ fs0 = StaleDir

\* C6: two successive successful runs of a script on the same input leave
\* output_dir as the first run left it, holding the N numbered files.
C6_Idempotent ==
    (/\ pc = "exited" /\ exitCode = 0
     /\ prev.valid /\ prev.exitCode = 0 /\ prev.script = script) =>
        /\ fs = prev.fs
        /\ written = prev.written
        /\ written = NumberedNames(nSlides)

\* C7: against the same host behaviour the two scripts issue the same
\* requests after load (enumeration, one export per slide, close), write the
\* same files and return the same result.
C7_VariantsAgree ==
    (/\ pc = "exited" /\ argc = RequiredArgc
     /\ prev.valid /\ prev.script # script /\ prev.argc = RequiredArgc
     /\ raised.step # "toplevel"
     /\ prev.raised = raised) =>
        /\ result = prev.result
        /\ written = prev.written
        /\ PostLoad(trace) = PostLoad(prev.trace)

\* C8: when the export of slide k raises, the run returns failure, the files
\* slide_001.png .. slide_(k-1).png it wrote are still in output_dir, the
\* failed request is the last one issued and slide k was requested once.
C8_PartialFailure ==
    (raised.step = "export" /\ Returned) =>
        LET k == raised.k
            ex == Exports(trace) IN
        /\ result = "false"
        /\ (pc = "exited" => exitCode = 1)
        /\ written = NumberedNames(k - 1)
        /\ \A j \in 1..(k - 1) : File(NumberedName(j), j) \in fs
        /\ Len(ex) = k
        /\ \A j \in 1..k : ex[j].index = j - 1
        /\ trace[Len(trace)] = ex[k]

C8_Witness ==
    /\ pc = "exited" /\ raised = ExportExc(3) /\ nSlides >= 3
    /\ Cardinality(written) = 2

\* C9 as stated: close is requested exactly on the way to a successful
\* return; on a failure return after a successful load close was never
\* requested and the document is still open.
C9_CloseOnlyOnSuccess ==
    /\ (Returned /\ result = "true") =>
          /\ Len(Closes(trace)) = 1
          /\ trace[Len(trace)].op = "close"
          /\ run \notin hostDocs
    /\ (Returned /\ result = "false" /\ doc = "doc") =>
          /\ Closes(trace) = <<>>
          /\ run \in hostDocs

\* C9 amended: on a successful return close was requested once, as the last
\* request, and the document is closed; on a failure return after a
\* successful load either close was never requested and the document is
\* still open, or close was the last request, was requested once, and is the
\* request that raised.
C9_CloseLastOrNever ==
    /\ (Returned /\ result = "true") =>
          /\ Len(Closes(trace)) = 1
          /\ trace[Len(trace)].op = "close"
          /\ run \notin hostDocs
    /\ (Returned /\ result = "false" /\ doc = "doc") =>
          \/ /\ Closes(trace) = <<>>
             /\ run \in hostDocs
          \/ /\ raised = Exc("close")
             /\ Len(Closes(trace)) = 1
             /\ trace[Len(trace)].op = "close"

C9_Witness ==
    /\ pc = "exited" /\ result = "false" /\ doc = "doc"
    /\ raised = Exc("close") /\ run \in hostDocs
    /\ Len(Exports(trace)) >= 2

\* C10: every load request asks for a hidden document, target "_blank",
\* search flags 0.
C10_LoadHidden ==
    \A j \in 1..Len(trace) :
        trace[j].op = "load" =>
            /\ [Name |-> "Hidden", Value |-> TRUE] \in trace[j].props
            /\ trace[j].target = "_blank"
            /\ trace[j].flags = 0

====
